---- MODULE Spec2Model ----
(***************************************************************************)
(* Model of the WebP converter: the ImageConverter engine and the Utils    *)
(* helpers of src/src/converter.js, and the UI controller of               *)
(* src/unnamed/part_000 that drives the engine from user events.           *)
(*                                                                         *)
(* JavaScript runs one task at a time.  A step of the model is one task:   *)
(* a call (or user event) up to its first await on the platform, or a      *)
(* platform callback (FileReader/Image load, canvas.toBlob, setTimeout)    *)
(* together with every promise continuation it wakes, which run as         *)
(* microtasks before the next task.                                        *)
(*                                                                         *)
(* Representation.  A file is named by an id ("A", "B", ...) and described *)
(* by FileTable; "null" is JavaScript's null.  A decoded Image is named by *)
(* the id of the file whose data URL it holds.  A quality is a fixed-point *)
(* number of 1/QScale units (0.9 is 90).  An object URL is its index in    *)
(* the sequence urls; 0 is the empty src.                                  *)
(***************************************************************************)
EXTENDS Integers, Sequences, FiniteSets, TLC

\* ------------------------------------------------------------- bounds
MaxPending == 2   \* most decodes, and most encodes, awaiting the platform at once
MaxUrls == 2      \* most object URLs created by URL.createObjectURL in a run
MaxCalls == 3     \* most calls of a debounced function in a run

\* ------------------------------------------------------------- constants
QScale == 100                       \* units of the fixed-point quality per 1.0
DefaultQuality == 90                \* quality: 0.9
MAX_FILE_SIZE == 10 * 1024 * 1024
SUPPORTED_TYPES ==
    {"image/png", "image/jpeg", "image/jpg", "image/gif", "image/bmp", "image/svg+xml"}

ErrNoFile == "No file selected"
ErrType == "Unsupported file type"
ErrSize == "File size exceeds limit"
ErrLoadImage == "Failed to load image"
ErrReadFile == "Failed to read file"
ErrNoImage == "No image loaded for conversion"
ErrInProgress == "Conversion already in progress"
ErrEncodeFailed == "Conversion failed: Failed to convert image to WebP"
ErrConvTypeError == "Conversion failed: Cannot read properties of null"
ErrNoConverted == "No converted image available for download"
ErrTypeError == "TypeError: Cannot read properties of null"

\* ------------------------------------------------------------- inputs
\* The files a caller may hand over: two valid ones (one at the size limit,
\* one whose name has no '.'), one of an unsupported type, one too large.
NamedFiles ==
    [A |-> [name |-> <<"a", ".", "p", "n", "g">>, type |-> "image/png", size |-> 5000000],
     B |-> [name |-> <<"b">>, type |-> "image/jpeg", size |-> MAX_FILE_SIZE],
     T |-> [name |-> <<"t", ".", "t", "i", "f">>, type |-> "image/tiff", size |-> 1000],
     L |-> [name |-> <<"l", ".", "p", "n", "g">>, type |-> "image/png",
            size |-> MAX_FILE_SIZE + 1]]
\* The files handed to the Utils functions on their own: every supported
\* type and some that are not (another image type, a supported type in
\* upper case, no type), at sizes around the limit.
ProbeTypes ==
    SUPPORTED_TYPES \cup {"image/webp", "image/tiff", "IMAGE/PNG", "text/plain", ""}
ProbeSizes == {0, 1, MAX_FILE_SIZE - 1, MAX_FILE_SIZE, MAX_FILE_SIZE + 1, 2 * MAX_FILE_SIZE}
ProbeId(type, size) == type \o "#" \o ToString(size)
ProbeFiles == {ProbeId(t, n) : t \in ProbeTypes, n \in ProbeSizes}
ProbeTable ==
    [f \in ProbeFiles |->
        LET p == CHOOSE p \in ProbeTypes \X ProbeSizes : ProbeId(p[1], p[2]) = f
        IN  [name |-> <<"p">>, type |-> p[1], size |-> p[2]]]

\* Every File object of the model, by its id
FileTable == NamedFiles @@ ProbeTable
Files == {"A", "B", "T", "L"}

\* The file names handed to generateWebPFilename on its own: one extension,
\* several dots, no dot, a leading dot, a trailing dot, the empty name.
NameInputs ==
    {<<"a", ".", "p", "n", "g">>, <<"m", "y", ".", "p", ".", "j", "p", "g">>,
     <<"b">>, <<"n", "o", "e", "x", "t">>, <<".", "h">>, <<"a", ".">>, <<>>}

\* The byte counts handed to formatFileSize on its own, as base-1024 digits,
\* most significant first: 0, 1, 1023, 1024, 1536, 1024^2 - 1, 1024^2, the
\* size limit, 1024^3, 1024^4 - 1, 1024^4, 2 * 1024^4 + 512 * 1024^3,
\* 1024^5 - 4, 1024^5 - 1 and 1024^5.
ByteInputs ==
    {<<0>>, <<1>>, <<1023>>, <<1, 0>>, <<1, 512>>, <<1023, 1023>>, <<1, 0, 0>>,
     <<10, 0, 0>>, <<1, 0, 0, 0>>, <<1023, 1023, 1023, 1023>>, <<1, 0, 0, 0, 0>>,
     <<2, 512, 0, 0, 0>>, <<1023, 1023, 1023, 1023, 1020>>,
     <<1023, 1023, 1023, 1023, 1023>>, <<1, 0, 0, 0, 0, 0>>}
\* The <<originalSize, newSize>> handed to calculateReduction on its own: the
\* sizes of the conversions, an unchanged size, exact percentages ending in
\* 5 hundredths whose double is below them (63.75, 0.15) and on them (0.25),
\* a larger new size, and an original size of 0.
PairInputs ==
    {<<5000000, 2000000>>, <<10485760, 2000000>>, <<2000000, 2000000>>,
     <<80, 29>>, <<2000, 1997>>, <<400, 399>>, <<2000, 2003>>, <<0, 0>>,
     <<0, 2000000>>}
FileArgs == Files \cup {"null"}
QualityArgs == {29}                 \* convertToWebP(quality), in 1/QScale
Percents == {29, 90}                \* updateQuality(quality) / slider values, 0..100
BlobSizes == {2000000}     \* byte sizes the platform encoder may produce
\* What canvas.toBlob hands its callback: null, or a blob of some size
EncoderOutputs ==
    {[blob |-> FALSE, size |-> 0]} \cup {[blob |-> TRUE, size |-> n] : n \in BlobSizes}
NoName == <<>>                      \* downloadWebP(): filename null or ''
NameArgs == {NoName, <<"c">>}
LoadOutcomes == {"ok", ErrLoadImage, ErrReadFile}

\* ------------------------------------------------------------- values
NoBlob == [canvas |-> "null", quality |-> 0, size |-> 0]      \* convertedBlob: null
NoReduction == [sign |-> "", tenths |-> 0, special |-> ""]
NoQuality == [percent |-> 0, ulps |-> 0]
NoResult ==
    [blob |-> NoBlob, previewUrl |-> 0, size |-> 0, originalSize |-> 0,
     reduction |-> NoReduction, quality |-> NoQuality, name |-> NoName]

\* The arguments a debounced function is called with
DebounceArgs == {1, 2, 3}

\* debounced = Utils.debounce(func, wait), not yet called: `timeout` is
\* undefined (0), no timer was set, func has not run.  A timer is "pending",
\* "cleared" (by clearTimeout while pending) or "fired".
NoDebounce == [timeout |-> 0, timers |-> <<>>, runs |-> <<>>]

\* No Utils function applied yet.
NoOut == [valid |-> FALSE, error |-> ""]
NoSize == [hundredths |-> 0, unit |-> ""]
NoUtil ==
    [fn |-> "", file |-> "null", name |-> <<>>, bytes |-> <<0>>,
     pair |-> <<0, 0>>, done |-> FALSE,
     out |-> NoOut, text |-> <<>>, size |-> NoSize, reduction |-> NoReduction]

InitState ==
    [originalFile |-> "null", originalImage |-> "null", convertedBlob |-> NoBlob,
     quality |-> DefaultQuality, isConverting |-> FALSE]

\* No object obtained from getState() yet.  alias tells whether the object a
\* caller holds is the engine's own state object, value its fields otherwise.
NoSnapshot == [taken |-> FALSE, alias |-> FALSE, value |-> InitState]

\* The fields of the object it got from getState() a caller may assign to,
\* and what it assigns: s.quality = 0.1, s.originalImage = null
SnapshotFields == {"quality", "originalImage"}
WrittenValue(field) == IF field = "quality" THEN 10 ELSE "null"

\* The DOM state the UI controller reads back or that gates a user event: the
\* converted image's src, the Convert button's disabled flag, the hidden
\* classes of the Download button and of the quality/preview sections, the
\* slider's value, and whether the debounce timer is armed.  Text and status
\* elements the controller only writes (error message, processing status,
\* sizes, the original image's src) are left out.
InitUI ==
    [convertedImageSrc |-> 0, convertBtnDisabled |-> TRUE, downloadBtnHidden |-> TRUE,
     sectionsHidden |-> TRUE, sliderValue |-> 90, timeout |-> FALSE]

VARIABLES
    state,           \* ImageConverter.state
    pendingLoads,    \* loadImageFile calls awaiting Utils.loadImage, in call order
    pendingEncodes,  \* convertToWebP calls awaiting canvas.toBlob, in call order
    urls,            \* object URLs created so far: kind, and times revoked
    ui,              \* the DOM fields the UI controller reads back, and its debounce timer
    last,            \* what the most recent engine call did: its outcome as the caller sees it
    snapshot,        \* an object a caller got from getState() and holds on to
    util,            \* a Utils function applied on its own: its argument and its result
    deb              \* a function returned by Utils.debounce: its closure and its timers

vars == <<state, pendingLoads, pendingEncodes, urls, ui, last, snapshot, util, deb>>

\* The variables of the specifications of getState and of the Utils functions,
\* which the engine's calls and the UI's handlers leave alone.
otherVars == <<snapshot, util, deb>>

\* ------------------------------------------------------------- helpers
RemoveAt(s, i) == SubSeq(s, 1, i - 1) \o SubSeq(s, i + 1, Len(s))

\* The record of an engine call.  step is "call" for the synchronous part of
\* a call and "settle" for the completion of its await; pre is the engine
\* state before the call, kept while clean: no other operation changed the
\* engine state between the call and its settlement.
Outcome(op, step, status, error, pre, clean, result) ==
    [op |-> op, step |-> step, status |-> status, error |-> error,
     pre |-> IF clean THEN pre ELSE InitState, clean |-> clean, result |-> result]

\* Pending encodes whose pre-state no longer describes "the state but for
\* this call", after a step taking the engine state from s to t.
Touch(pend, s, t) ==
    IF s = t THEN pend
    ELSE [i \in 1..Len(pend) |-> [pend[i] EXCEPT !.clean = FALSE, !.pre = InitState]]

\* The pending loads of the files a user selected, after the i-th of them
\* settled: when it succeeded, the loads of the files selected before it are
\* overtaken, the load of a file selected later having stored its file first.
Overtake(pend, i, outcome) ==
    [j \in 1..Len(pend) |->
        IF outcome = "ok" /\ j < i THEN [pend[j] EXCEPT !.overtaken = TRUE] ELSE pend[j]]

\* URL.createObjectURL / URL.revokeObjectURL
CreateObjectURL(us, kind) == Append(us, [kind |-> kind, revokes |-> 0])
RevokeObjectURL(us, u) ==
    IF u \in 1..Len(us) THEN [us EXCEPT ![u].revokes = @ + 1] ELSE us
LivePreviews == {u \in 1..Len(urls) : urls[u].kind = "preview" /\ urls[u].revokes = 0}

\* ------------------------------------------------------------- Utils
isValidFileType(f) == FileTable[f].type \in SUPPORTED_TYPES

\* A size check that rejects a file of exactly the limit.
isValidFileSize_exclusive(f) == FileTable[f].size < MAX_FILE_SIZE

isValidFileSize(f) == FileTable[f].size <= MAX_FILE_SIZE

\* A validateFile that checks the size before the type.
validateFile_sizefirst(f) ==
    IF f = "null" THEN [valid |-> FALSE, error |-> ErrNoFile]
    ELSE IF ~isValidFileSize(f) THEN [valid |-> FALSE, error |-> ErrSize]
    ELSE IF ~isValidFileType(f) THEN [valid |-> FALSE, error |-> ErrType]
    ELSE [valid |-> TRUE, error |-> ""]

validateFile(f) ==
    IF f = "null" THEN [valid |-> FALSE, error |-> ErrNoFile]
    ELSE IF ~isValidFileType(f) THEN [valid |-> FALSE, error |-> ErrType]
    ELSE IF ~isValidFileSize(f) THEN [valid |-> FALSE, error |-> ErrSize]
    ELSE [valid |-> TRUE, error |-> ""]

\* ---- JavaScript Number arithmetic.  `/` and `*` round their exact result to
\* the nearest double (53 significant bits, ties to even).  A positive double
\* is [m, e]: m its 53 significant bits, most significant first, read as an
\* integer M; the value is M * 2^e.  Naturals are sequences of bits, most
\* significant first, no leading zero.
natBits(n) ==
    LET len == Cardinality({k \in 0..30 : 2^k <= n})
    IN  [i \in 1..len |-> (n \div 2^(len - i)) % 2]

zeroBits(n) == [i \in 1..n |-> 0]

reverseBits(bits) == [i \in 1..Len(bits) |-> bits[Len(bits) + 1 - i]]

\* For bits least significant first and a small natural c,
\* bits[lo..hi] * c + carry, halving the range to keep the recursion
\* shallow: the low hi - lo + 1 bits, least significant first, and the
\* carry out of them.
RECURSIVE timesRange(_, _, _, _, _)
timesRange(bits, c, lo, hi, carry) ==
    IF lo > hi THEN [q |-> <<>>, r |-> carry]
    ELSE IF lo = hi
    THEN LET t == bits[lo] * c + carry
         IN  [q |-> <<t % 2>>, r |-> t \div 2]
    ELSE LET mid == (lo + hi) \div 2
             low == timesRange(bits, c, lo, mid, carry)
             high == timesRange(bits, c, mid + 1, hi, low.r)
         IN  [q |-> low.q \o high.q, r |-> high.r]

\* bits * c
timesSmall(bits, c) ==
    LET p == timesRange(reverseBits(bits), c, 1, Len(bits), 0)
    IN  natBits(p.r) \o reverseBits(p.q)

\* bits + 1
plusOne(bits) ==
    LET zeros == {i \in DOMAIN bits : bits[i] = 0}
    IN  IF zeros = {} THEN <<1>> \o zeroBits(Len(bits))
        ELSE LET z == CHOOSE i \in zeros : \A j \in zeros : j <= i
             IN  SubSeq(bits, 1, z - 1) \o <<1>> \o zeroBits(Len(bits) - z)

\* Long division of bits[lo..hi] by b, 0 < b < 2^30, with the remainder
\* r < b carried in, halving the range: the quotient's hi - lo + 1 bits and
\* the remainder.
RECURSIVE quotientRange(_, _, _, _, _)
quotientRange(bits, b, lo, hi, r) ==
    IF lo > hi THEN [q |-> <<>>, r |-> r]
    ELSE IF lo = hi
    THEN LET t == 2 * r + bits[lo]
         IN  IF t >= b THEN [q |-> <<1>>, r |-> t - b] ELSE [q |-> <<0>>, r |-> t]
    ELSE LET mid == (lo + hi) \div 2
             high == quotientRange(bits, b, lo, mid, r)
             low == quotientRange(bits, b, mid + 1, hi, high.r)
         IN  [q |-> high.q \o low.q, r |-> low.r]

stripZeros(bits) ==
    IF \A i \in DOMAIN bits : bits[i] = 0 THEN <<>>
    ELSE LET first == CHOOSE i \in DOMAIN bits :
                          bits[i] = 1 /\ \A j \in 1..(i - 1) : bits[j] = 0
         IN  SubSeq(bits, first, Len(bits))

\* -1, 0 or 1 as the natural a is below, equal to or above the natural b
compareBits(a, b) ==
    IF Len(a) # Len(b) THEN (IF Len(a) > Len(b) THEN 1 ELSE -1)
    ELSE IF a = b THEN 0
    ELSE LET first == CHOOSE i \in DOMAIN a :
                          a[i] # b[i] /\ \A j \in 1..(i - 1) : a[j] = b[j]
         IN  IF a[first] > b[first] THEN 1 ELSE -1

\* The number of significant bits of a double
Precision == 53

\* The double nearest to (N + s) * 2^e, where bits is the natural N > 0 and
\* 0 <= s < 1 with s > 0 exactly when sticky: the first 53 bits, plus one
\* when the rest is above one half, or is one half and the 53rd bit is odd.
roundToDouble(bits, sticky, e) ==
    LET n == Len(bits)
    IN  IF n <= Precision
        THEN [m |-> bits \o zeroBits(Precision - n), e |-> e - (Precision - n)]
        ELSE LET keep == SubSeq(bits, 1, Precision)
                 rest == SubSeq(bits, Precision + 1, n)
                 more == sticky \/ \E i \in 2..Len(rest) : rest[i] = 1
                 up == rest[1] = 1 /\ (more \/ keep[Precision] = 1)
                 m == IF up THEN plusOne(keep) ELSE keep
             IN  IF Len(m) > Precision
                 THEN [m |-> SubSeq(m, 1, Precision), e |-> e + (n - Precision) + 1]
                 ELSE [m |-> m, e |-> e + (n - Precision)]

\* The zero bits appended to a dividend, so that its quotient by a divisor
\* below 2^30 has more than 53 bits
DivShift == 90

\* a / b in doubles, for naturals 0 < a < 2^31 and 0 < b < 2^30
numberDivide(a, b) ==
    LET dividend == natBits(a) \o zeroBits(DivShift)
        d == quotientRange(dividend, b, 1, Len(dividend), 0)
    IN  roundToDouble(stripZeros(d.q), d.r # 0, 0 - DivShift)

\* x * c in doubles, for a positive double x and a small natural c > 0
numberTimes(x, c) == roundToDouble(timesSmall(x.m, c), FALSE, x.e)

\* -1, 0 or 1 as the positive double x is below, equal to or above num / den,
\* for naturals num > 0 and a small den > 0
compareToRatio(x, num, den) ==
    compareBits(timesSmall(x.m, den)
                    \o zeroBits(IF x.e > 0 THEN x.e ELSE 0),
                natBits(num) \o zeroBits(IF x.e < 0 THEN 0 - x.e ELSE 0))

\* ((originalSize - newSize) / originalSize) * 100, sign '-' when >= 0,
\* magnitude to one decimal place (toFixed(1)), here in tenths of a percent.
\* The exact quotient is taken digit by digit to stay within 32-bit integers.
\* toFixed(1) gives the multiple of 0.1 nearest to the double `reduction`,
\* the larger one when two are as near.  The double is within 2^-52 of the
\* exact percentage, relatively, which is less than the distance of the
\* exact percentage from the nearest odd multiple of 0.05 when it is not
\* one (at least 1 / (20 * originalSize)), for sizes below 2^31: then the
\* double rounds as the exact value does.  When the exact percentage is an
\* odd multiple of 0.05 the double may be below, on or above it, and the
\* digit goes up only when the double is not below.  Sizes are below
\* 2^31 / 10, the program's files being at most MAX_FILE_SIZE.
\* With originalSize 0 the quotient is NaN (newSize 0) or -Infinity: both fail
\* `>= 0`, and toFixed prints them by name.
calculateReduction(originalSize, newSize) ==
    IF originalSize = 0
    THEN [sign |-> "+", tenths |-> 0,
          special |-> IF newSize = 0 THEN "NaN" ELSE "Infinity"]
    ELSE
    LET diff == originalSize - newSize
        mag == IF diff >= 0 THEN diff ELSE 0 - diff
        d0 == mag \div originalSize
        r0 == mag % originalSize
        d1 == (r0 * 10) \div originalSize
        r1 == (r0 * 10) % originalSize
        d2 == (r1 * 10) \div originalSize
        r2 == (r1 * 10) % originalSize
        d3 == (r2 * 10) \div originalSize
        r3 == (r2 * 10) % originalSize
        floorTenths == d0 * 1000 + d1 * 100 + d2 * 10 + d3
        reduction == numberTimes(numberDivide(mag, originalSize), 100)
        up == IF 2 * r3 = originalSize
              THEN (IF compareToRatio(reduction, 2 * floorTenths + 1, 20) >= 0
                    THEN 1 ELSE 0)
              ELSE (IF 2 * r3 > originalSize THEN 1 ELSE 0)
    IN  [sign |-> IF diff >= 0 THEN "-" ELSE "+",
         tenths |-> floorTenths + up, special |-> ""]

\* originalFilename.lastIndexOf('.'), 0-based, -1 when there is none
lastIndexOfDot(name) ==
    LET dots == {i \in 1..Len(name) : name[i] = "."}
    IN  IF dots = {} THEN -1 ELSE (CHOOSE i \in dots : \A j \in dots : j <= i) - 1

\* originalFilename.substring(0, lastIndexOf('.')) + '.webp'; substring
\* treats a negative end as 0
generateWebPFilename(name) ==
    LET end == lastIndexOfDot(name)
    IN  SubSeq(name, 1, IF end < 0 THEN 0 ELSE end) \o <<".", "w", "e", "b", "p">>

\* The unit names of formatFileSize
sizes == <<"Bytes", "KB", "MB", "GB">>

\* floor(200 * f) for the base-1024 fraction f = 0.digits[k] digits[k+1] ...
RECURSIVE floor200(_, _)
floor200(digits, k) ==
    IF k > Len(digits) THEN 0
    ELSE (200 * digits[k] + floor200(digits, k + 1)) \div 1024

\* Math.floor(Math.log(bytes) / Math.log(1024)) for a byte count below 2^53
\* (at most 6 digits, the first of 6 below 8).  The exact value is the number
\* of digits after the first.  The double quotient is that number too, but
\* for 1024^5 - 3, 1024^5 - 2 and 1024^5 - 1: Math.log gives them the double
\* it gives 1024^5, whose quotient by Math.log(1024) is 5.  Below the other
\* powers 1024^k, k <= 4, Math.log(1024^k - 1) is a smaller double than
\* Math.log(1024^k) and the quotient stays below k.
logIndex(bytes) ==
    IF /\ Len(bytes) = 5
       /\ \A k \in 1..4 : bytes[k] = 1023
       /\ bytes[5] >= 1021
    THEN 5
    ELSE Len(bytes) - 1

\* formatFileSize(bytes) with the default two decimals, bytes in base-1024
\* digits: i as above; bytes / 1024^i, an exact double, to two decimals
\* (toFixed rounds half up), in hundredths; sizes[i], which is undefined
\* past the end of the array.
formatFileSize(bytes) ==
    IF bytes = <<0>> THEN [hundredths |-> 0, unit |-> "Bytes"]
    ELSE LET i == logIndex(bytes)
         IN  [hundredths |->
                  IF i = Len(bytes) THEN (floor200(bytes, 1) + 1) \div 2
                  ELSE 100 * bytes[1] + (floor200(bytes, 2) + 1) \div 2,
              unit |-> IF i + 1 \in DOMAIN sizes THEN sizes[i + 1] ELSE "undefined"]

\* clearTimeout(id): cancels the timer if it is pending, else does nothing
ClearTimeout(timers, id) ==
    IF id \in 1..Len(timers) /\ timers[id].status = "pending"
    THEN [timers EXCEPT ![id].status = "cleared"]
    ELSE timers

\* setTimeout(later, wait) for a call with these arguments; its id is its index
SetTimeout(timers, args) == Append(timers, [args |-> args, status |-> "pending"])

\* A debounced function that sets its timer without clearing the one before.
executedFunction_noclear(d, args) ==
    [d EXCEPT !.timers = SetTimeout(d.timers, args), !.timeout = Len(d.timers) + 1]

\* executedFunction(...args): clearTimeout(timeout); timeout = setTimeout(later, wait)
executedFunction(d, args) ==
    [d EXCEPT !.timers = SetTimeout(ClearTimeout(d.timers, d.timeout), args),
              !.timeout = Len(d.timers) + 1]

\* later(), run by timer t: clearTimeout(timeout); func(...args)
later(d, t) ==
    [d EXCEPT !.timers = ClearTimeout([d.timers EXCEPT ![t].status = "fired"], d.timeout),
              !.runs = Append(d.runs, d.timers[t].args)]

\* ------------------------------------------------------------- ImageConverter
hasImage(st) == st.originalImage # "null"
isConverted(st) == st.convertedBlob # NoBlob

\* getConversionStats: null without a file or a blob; else the statistics,
\* unless reading originalImage.naturalWidth throws on a null image.
getConversionStats(st) ==
    IF st.originalFile = "null" \/ st.convertedBlob = NoBlob THEN "null"
    ELSE IF st.originalImage = "null" THEN ErrTypeError
    ELSE "stats"

\* A loadImageFile that stores the file and not the image.
loadImageFile_store_fileonly(st, file, outcome) ==
    IF outcome = "ok" THEN [st EXCEPT !.originalFile = file] ELSE st

\* A loadImageFile that stores the file before awaiting its decode.
loadImageFile_store_eager(st, file, outcome) ==
    [st EXCEPT !.originalFile = file,
               !.originalImage = IF outcome = "ok" THEN file ELSE @]

\* loadImageFile after `await Utils.loadImage(file)`: the two assignments run
\* only when the await did not throw.
loadImageFile_store(st, file, outcome) ==
    IF outcome = "ok"
    THEN [st EXCEPT !.originalFile = file, !.originalImage = file]
    ELSE st

\* A convertToWebP without its no-image guard.
convertToWebP_guard_nosource(st) ==
    IF st.isConverting THEN ErrInProgress ELSE ""

\* A convertToWebP without its in-progress guard.
convertToWebP_guard_unguarded(st) ==
    IF st.originalImage = "null" THEN ErrNoImage ELSE ""

\* The guards of convertToWebP: the error thrown before the try block, or "".
convertToWebP_guard(st) ==
    IF st.originalImage = "null" THEN ErrNoImage
    ELSE IF st.isConverting THEN ErrInProgress
    ELSE ""

\* isConverting = true; quality = quality
convertToWebP_begin(st, quality) ==
    [st EXCEPT !.isConverting = TRUE, !.quality = quality]

\* A convertToWebP with no finally block.
convertToWebP_finally_skipped(st) == st

\* finally { this.state.isConverting = false }
convertToWebP_finally(st) == [st EXCEPT !.isConverting = FALSE]

\* quality * 100, a double product, for a quality in 1/QScale units.
\* The argument is the double nearest to quality / QScale (0.07, or 7 / 100
\* in updateQuality), so the product is within one double of the whole
\* percentage: [percent, ulps] is the double `ulps` doubles above the integer
\* `percent`, with ulps -1, 0 or 1 as the product is below, on or above it
\* (0.07 * 100 is 7.000000000000001, 0.29 * 100 is 28.999999999999996).
timesHundred(quality) ==
    IF quality = 0 THEN [percent |-> 0, ulps |-> 0]
    ELSE LET product == numberTimes(numberDivide(quality, QScale), 100)
         IN  [percent |-> (quality * 100) \div QScale,
              ulps |-> compareToRatio(product, quality * 100, QScale)]

\* The products for the qualities 0..1, computed once
percentages == [quality \in 0..QScale |-> timesHundred(quality)]

\* The quality field of the returned object: quality * 100
resultQuality(quality) ==
    IF quality \in DOMAIN percentages THEN percentages[quality]
    ELSE timesHundred(quality)

\* convertToWebP from the toBlob callback on: p is the pending call, out the
\* encoder's output.  The engine state and URL table it leaves, and what the
\* caller's promise settles with.
convertToWebP_settle(st, us, p, out) ==
    IF ~out.blob
    THEN [state |-> convertToWebP_finally(st), urls |-> us,
          status |-> "rejected", error |-> ErrEncodeFailed, result |-> NoResult]
    ELSE
        LET blob == [canvas |-> p.canvas, quality |-> p.quality, size |-> out.size]
            stored == [st EXCEPT !.convertedBlob = blob]
            us2 == CreateObjectURL(us, "preview")
        IN  IF st.originalFile = "null"
            THEN \* this.state.originalFile.size throws; caught and rethrown
                 [state |-> convertToWebP_finally(stored), urls |-> us2,
                  status |-> "rejected", error |-> ErrConvTypeError, result |-> NoResult]
            ELSE [state |-> convertToWebP_finally(stored), urls |-> us2,
                  status |-> "resolved", error |-> "",
                  result |->
                      [blob |-> blob, previewUrl |-> Len(us2), size |-> out.size,
                       originalSize |-> FileTable[st.originalFile].size,
                       reduction |->
                           calculateReduction(FileTable[st.originalFile].size, out.size),
                       quality |-> resultQuality(p.quality), name |-> NoName]]

\* quality / 100
updateQuality_normalize(percent) == (percent * QScale) \div 100

\* downloadWebP: the error thrown, or "" and the name given to the download.
downloadWebP_result(st, filename) ==
    IF st.convertedBlob = NoBlob THEN [error |-> ErrNoConverted, name |-> NoName]
    ELSE IF filename # NoName THEN [error |-> "", name |-> filename]
    ELSE IF st.originalFile = "null" THEN [error |-> ErrTypeError, name |-> NoName]
    ELSE [error |-> "", name |-> generateWebPFilename(FileTable[st.originalFile].name)]

\* A downloadWebP whose timer callback revokes nothing.
downloadWebP_cleanup_missing(us, u) == us

\* The timer callback of downloadWebP: URL.revokeObjectURL(downloadUrl)
downloadWebP_cleanup(us, u) == RevokeObjectURL(us, u)

\* A reset that keeps the quality last used.
reset_state_keepquality(st) == [InitState EXCEPT !.quality = st.quality]

\* A getState that hands out the state object itself.
getState_alias(st) == [taken |-> TRUE, alias |-> TRUE, value |-> InitState]

\* getState: { ...this.state }, a new object with the fields of the state
getState(st) == [taken |-> TRUE, alias |-> FALSE, value |-> st]

\* reset: the state object is replaced (revoking the image's data URL does
\* nothing to the object URLs)
reset_state(st) == InitState

\* ------------------------------------------------------------- UI
\* handleFileSelect after a successful load: show the quality and preview
\* sections, enable Convert
handleFileSelect_loaded(u) ==
    [u EXCEPT !.sectionsHidden = FALSE, !.convertBtnDisabled = FALSE]

\* handleConvert up to its await: disable Convert
handleConvert_begin(u) == [u EXCEPT !.convertBtnDisabled = TRUE]

\* displayConvertedImage: the new preview URL replaces the src
displayConvertedImage(u, conversionData) ==
    [u EXCEPT !.convertedImageSrc = conversionData.previewUrl]

\* handleConvert after a successful conversion
handleConvert_converted(u, conversionData) ==
    [displayConvertedImage(u, conversionData) EXCEPT
        !.downloadBtnHidden = FALSE, !.convertBtnDisabled = FALSE]

\* handleConvert's catch: showError, enable Convert, hideProcessingStatus
handleConvert_failed(u) == [u EXCEPT !.convertBtnDisabled = FALSE]

\* updateConvertedPreview: revokes the URL in the src, if any, then replaces it
updateConvertedPreview_urls(u, us) ==
    IF u.convertedImageSrc # 0 THEN RevokeObjectURL(us, u.convertedImageSrc) ELSE us
updateConvertedPreview(u, conversionData) ==
    [u EXCEPT !.convertedImageSrc = conversionData.previewUrl]

\* handleReset after ImageConverter.reset()
handleReset_ui(u) ==
    [u EXCEPT !.sectionsHidden = TRUE, !.downloadBtnHidden = TRUE, !.sliderValue = 90,
              !.convertedImageSrc = 0]


Init ==
    /\ state = InitState
    /\ pendingLoads = <<>>
    /\ pendingEncodes = <<>>
    /\ urls = <<>>
    /\ ui = InitUI
    /\ last = Outcome("init", "call", "resolved", "", InitState, TRUE, NoResult)
    /\ snapshot = NoSnapshot
    /\ util = NoUtil
    /\ deb = NoDebounce

\* ------------------------------------------------------------- engine calls
\* The synchronous part of loadImageFile(file) for a caller.
LoadCall(file, caller) ==
    LET v == validateFile(file)
    IN  /\ v.valid => Len(pendingLoads) < MaxPending
        /\ pendingLoads' =
               IF v.valid
               THEN Append(pendingLoads,
                           [file |-> file, caller |-> caller, overtaken |-> FALSE])
               ELSE pendingLoads
        /\ last' =
               IF v.valid
               THEN Outcome("loadImageFile", "call", "pending", "", state, TRUE, NoResult)
               ELSE Outcome("loadImageFile", "call", "rejected", v.error, state, TRUE, NoResult)
        /\ UNCHANGED <<state, pendingEncodes, urls>>

\* Utils.loadImage settles for the i-th pending load, and loadImageFile
\* resumes; the caller's action says what becomes of the pending loads.
LoadSettle(i, outcome) ==
    LET p == pendingLoads[i]
    IN  /\ state' = loadImageFile_store(state, p.file, outcome)
        /\ pendingEncodes' = Touch(pendingEncodes, state, state')
        /\ last' =
               IF outcome = "ok"
               THEN Outcome("loadImageFile", "settle", "resolved", "", state, TRUE, NoResult)
               ELSE Outcome("loadImageFile", "settle", "rejected", outcome, state, TRUE, NoResult)
        /\ UNCHANGED urls

\* The synchronous part of convertToWebP(quality) for a caller.
ConvertCall(quality, caller) ==
    LET err == convertToWebP_guard(state)
    IN  /\ err = "" => /\ Len(pendingEncodes) < MaxPending
                       /\ Len(urls) + Len(pendingEncodes) < MaxUrls
        /\ state' = IF err = "" THEN convertToWebP_begin(state, quality) ELSE state
        /\ pendingEncodes' =
               IF err = ""
               THEN Append(Touch(pendingEncodes, state, state'),
                           [quality |-> quality, canvas |-> state.originalImage,
                            caller |-> caller, pre |-> state, clean |-> TRUE])
               ELSE pendingEncodes
        /\ last' =
               IF err = ""
               THEN Outcome("convertToWebP", "call", "pending", "", state, TRUE, NoResult)
               ELSE Outcome("convertToWebP", "call", "rejected", err, state, TRUE, NoResult)
        /\ UNCHANGED <<pendingLoads, urls>>

\* canvas.toBlob calls back for the i-th pending encode, and convertToWebP
\* resumes; us is the URL table it leaves (the caller may revoke further).
ConvertSettle(i, out) ==
    LET p == pendingEncodes[i]
        r == convertToWebP_settle(state, urls, p, out)
    IN  /\ state' = r.state
        /\ pendingEncodes' = Touch(RemoveAt(pendingEncodes, i), state, state')
        /\ last' = Outcome("convertToWebP", "settle", r.status, r.error, p.pre, p.clean, r.result)
        /\ UNCHANGED pendingLoads

\* ------------------------------------------------------------- the engine's API, called directly
LoadImageFile(file) ==
    /\ LoadCall(file, "api")
    /\ UNCHANGED <<ui, otherVars>>

LoadImageSettles(i, outcome) ==
    /\ i \in 1..Len(pendingLoads)
    /\ pendingLoads[i].caller = "api"
    /\ LoadSettle(i, outcome)
    /\ pendingLoads' = RemoveAt(pendingLoads, i)
    /\ UNCHANGED <<ui, otherVars>>

ConvertToWebP(quality) ==
    /\ ConvertCall(quality, "api")
    /\ UNCHANGED <<ui, otherVars>>

\* convertToWebP() with the default argument this.state.quality
ConvertToWebPDefault ==
    /\ ConvertCall(state.quality, "api")
    /\ UNCHANGED <<ui, otherVars>>

UpdateQuality(percent) ==
    /\ ConvertCall(updateQuality_normalize(percent), "api")
    /\ UNCHANGED <<ui, otherVars>>

ToBlobCallsBack(i, out) ==
    /\ i \in 1..Len(pendingEncodes)
    /\ pendingEncodes[i].caller = "api"
    /\ ConvertSettle(i, out)
    /\ urls' = convertToWebP_settle(state, urls, pendingEncodes[i], out).urls
    /\ UNCHANGED <<ui, otherVars>>

DownloadCall(filename) ==
    LET r == downloadWebP_result(state, filename)
    IN  /\ r.error = "" => Len(urls) + Len(pendingEncodes) < MaxUrls
        /\ urls' = IF r.error = "" THEN CreateObjectURL(urls, "download") ELSE urls
        /\ last' =
               IF r.error = ""
               THEN Outcome("downloadWebP", "call", "resolved", "", state, TRUE,
                            [NoResult EXCEPT !.name = r.name])
               ELSE Outcome("downloadWebP", "call", "rejected", r.error, state, TRUE, NoResult)
        /\ UNCHANGED <<state, pendingLoads, pendingEncodes>>

DownloadWebP(filename) ==
    /\ DownloadCall(filename)
    /\ UNCHANGED <<ui, otherVars>>

\* setTimeout(() => URL.revokeObjectURL(downloadUrl), 100) fires
DownloadTimerFires(u) ==
    /\ u \in 1..Len(urls)
    /\ urls[u].kind = "download"
    /\ urls[u].revokes = 0
    /\ urls' = downloadWebP_cleanup(urls, u)
    /\ UNCHANGED <<state, pendingLoads, pendingEncodes, ui, last, otherVars>>

ResetCall ==
    /\ state' = reset_state(state)
    /\ pendingEncodes' = Touch(pendingEncodes, state, state')
    /\ last' = Outcome("reset", "call", "resolved", "", state, TRUE, NoResult)
    /\ UNCHANGED <<pendingLoads, urls>>

Reset ==
    /\ ResetCall
    /\ UNCHANGED <<ui, otherVars>>

Next ==
    \/ \E f \in FileArgs : LoadImageFile(f)
    \/ \E i \in 1..MaxPending, o \in LoadOutcomes : LoadImageSettles(i, o)
    \/ \E q \in QualityArgs : ConvertToWebP(q)
    \/ ConvertToWebPDefault
    \/ \E p \in Percents : UpdateQuality(p)
    \/ \E i \in 1..MaxPending, out \in EncoderOutputs : ToBlobCallsBack(i, out)
    \/ \E n \in NameArgs : DownloadWebP(n)
    \/ \E u \in 1..MaxUrls : DownloadTimerFires(u)
    \/ Reset

Spec == Init /\ [][Next]_vars

\* The timers downloadWebP sets with setTimeout run: the event loop runs every
\* timer callback that is due.
SpecFair == Spec /\ \A u \in 1..MaxUrls : WF_vars(DownloadTimerFires(u))

\* ------------------------------------------------------------- the UI, driven by user events
\* A file is chosen or dropped: handleFileSelect(file).  Up to its await, and
\* in its catch, it writes only the error and status elements.
SelectFile(file) ==
    /\ LoadCall(file, "handleFileSelect")
    /\ UNCHANGED <<ui, otherVars>>

\* The decode of a selected file settles and handleFileSelect resumes.
HandleFileSelectResumes(i, outcome) ==
    /\ i \in 1..Len(pendingLoads)
    /\ pendingLoads[i].caller = "handleFileSelect"
    /\ LoadSettle(i, outcome)
    /\ pendingLoads' = RemoveAt(Overtake(pendingLoads, i, outcome), i)
    /\ ui' = IF outcome = "ok"
             THEN handleFileSelect_loaded(ui)
             ELSE ui
    /\ UNCHANGED otherVars

\* The Convert button is clicked (a disabled button gets no click): handleConvert()
ClickConvert ==
    /\ ~ui.convertBtnDisabled
    /\ ConvertCall(updateQuality_normalize(ui.sliderValue), "handleConvert")
    /\ ui' = IF convertToWebP_guard(state) = ""
             THEN handleConvert_begin(ui)
             ELSE handleConvert_failed(handleConvert_begin(ui))
    /\ UNCHANGED otherVars

\* The encode started by handleConvert settles and handleConvert resumes.
HandleConvertResumes(i, out) ==
    /\ i \in 1..Len(pendingEncodes)
    /\ pendingEncodes[i].caller = "handleConvert"
    /\ ConvertSettle(i, out)
    /\ urls' = convertToWebP_settle(state, urls, pendingEncodes[i], out).urls
    /\ ui' = IF last'.status = "resolved"
             THEN handleConvert_converted(ui, last'.result)
             ELSE handleConvert_failed(ui)
    /\ UNCHANGED otherVars

\* The slider is moved (it sits in the quality section): the debounced
\* listener restarts its 300 ms timer.
SliderInput(v) ==
    /\ ~ui.sectionsHidden
    /\ v # ui.sliderValue
    /\ ui' = [ui EXCEPT !.sliderValue = v, !.timeout = TRUE]
    /\ UNCHANGED <<state, pendingLoads, pendingEncodes, urls, last, otherVars>>

\* The debounce timer fires: the listener reads the slider, and reconverts
\* through handleQualityChange when a result exists (its catch only logs).
DebounceFires ==
    /\ ui.timeout
    /\ ui' = [ui EXCEPT !.timeout = FALSE]
    /\ IF isConverted(state)
       THEN ConvertCall(updateQuality_normalize(ui.sliderValue), "handleQualityChange")
       ELSE UNCHANGED <<state, pendingLoads, pendingEncodes, urls, last>>
    /\ UNCHANGED otherVars

\* The encode started by handleQualityChange settles and it resumes.
HandleQualityChangeResumes(i, out) ==
    /\ i \in 1..Len(pendingEncodes)
    /\ pendingEncodes[i].caller = "handleQualityChange"
    /\ ConvertSettle(i, out)
    /\ urls' = IF last'.status = "resolved"
               THEN updateConvertedPreview_urls(
                        ui, convertToWebP_settle(state, urls, pendingEncodes[i], out).urls)
               ELSE convertToWebP_settle(state, urls, pendingEncodes[i], out).urls
    /\ ui' = IF last'.status = "resolved"
             THEN updateConvertedPreview(ui, last'.result)
             ELSE ui
    /\ UNCHANGED otherVars

\* The Download button is clicked (it is hidden until a conversion): handleDownload()
ClickDownload ==
    /\ ~ui.downloadBtnHidden
    /\ DownloadCall(NoName)
    /\ UNCHANGED <<ui, otherVars>>

\* The Reset button is clicked: handleReset()
ClickReset ==
    /\ ResetCall
    /\ ui' = handleReset_ui(ui)
    /\ UNCHANGED otherVars

NextUI ==
    \/ \E f \in Files : SelectFile(f)
    \/ \E i \in 1..MaxPending, o \in LoadOutcomes : HandleFileSelectResumes(i, o)
    \/ ClickConvert
    \/ \E i \in 1..MaxPending, out \in EncoderOutputs : HandleConvertResumes(i, out)
    \/ \E v \in Percents : SliderInput(v)
    \/ DebounceFires
    \/ \E i \in 1..MaxPending, out \in EncoderOutputs : HandleQualityChangeResumes(i, out)
    \/ ClickDownload
    \/ \E u \in 1..MaxUrls : DownloadTimerFires(u)
    \/ ClickReset

SpecUI == Init /\ [][NextUI]_vars

\* The platform calls back: a debounce timer that is due fires, and a decode
\* or an encode that was started completes, one way or the other.
SpecUIFair ==
    /\ SpecUI
    /\ WF_vars(DebounceFires)
    /\ \A i \in 1..MaxPending :
          /\ WF_vars(\E o \in LoadOutcomes : HandleFileSelectResumes(i, o))
          /\ WF_vars(\E out \in EncoderOutputs : HandleConvertResumes(i, out))
          /\ WF_vars(\E out \in EncoderOutputs : HandleQualityChangeResumes(i, out))

\* ------------------------------------------------------------- getState and its caller
\* The fields of the object the caller holds.
SnapshotValue == IF snapshot.alias THEN state ELSE snapshot.value

\* const s = ImageConverter.getState()
GetState ==
    /\ snapshot' = getState(state)
    /\ UNCHANGED <<state, pendingLoads, pendingEncodes, urls, ui, last, util, deb>>

\* s[field] = WrittenValue(field), on the object the caller holds
AssignSnapshotField(field) ==
    /\ snapshot.taken
    /\ SnapshotValue[field] # WrittenValue(field)
    /\ IF snapshot.alias
       THEN /\ state' = [state EXCEPT ![field] = WrittenValue(field)]
            /\ UNCHANGED snapshot
       ELSE /\ snapshot' = [snapshot EXCEPT !.value[field] = WrittenValue(field)]
            /\ UNCHANGED state
    /\ UNCHANGED <<pendingLoads, pendingEncodes, urls, ui, last, util, deb>>

\* The engine's calls that change its state (a load, an encode, a reset, on
\* one file) while a caller takes snapshots and assigns to their fields.
NextSnapshot ==
    \/ LoadImageFile("A")
    \/ \E i \in 1..MaxPending : LoadImageSettles(i, "ok")
    \/ ConvertToWebPDefault
    \/ \E i \in 1..MaxPending, out \in EncoderOutputs : ToBlobCallsBack(i, out)
    \/ Reset
    \/ GetState
    \/ \E f \in SnapshotFields : AssignSnapshotField(f)

SpecSnapshot == Init /\ [][NextSnapshot]_vars

\* ------------------------------------------------------------- the Utils functions on their own
\* A function of Utils and the file it is about to be applied to.
UtilInputs ==
    {[NoUtil EXCEPT !.fn = fn, !.file = f] :
        fn \in {"validateFile", "isValidFileType", "isValidFileSize"}, f \in ProbeFiles}
    \cup {[NoUtil EXCEPT !.fn = "validateFile"]}
    \cup {[NoUtil EXCEPT !.fn = "generateWebPFilename", !.name = n] : n \in NameInputs}
    \cup {[NoUtil EXCEPT !.fn = "formatFileSize", !.bytes = b] : b \in ByteInputs}
    \cup {[NoUtil EXCEPT !.fn = "calculateReduction", !.pair = p] : p \in PairInputs}

InitUtils ==
    /\ state = InitState
    /\ pendingLoads = <<>>
    /\ pendingEncodes = <<>>
    /\ urls = <<>>
    /\ ui = InitUI
    /\ last = Outcome("init", "call", "resolved", "", InitState, TRUE, NoResult)
    /\ snapshot = NoSnapshot
    /\ util \in UtilInputs
    /\ deb = NoDebounce

\* Utils.validateFile(file)
ApplyValidateFile ==
    /\ util.fn = "validateFile"
    /\ ~util.done
    /\ util' = [util EXCEPT !.done = TRUE, !.out = validateFile(util.file)]
    /\ UNCHANGED <<state, pendingLoads, pendingEncodes, urls, ui, last, snapshot, deb>>

\* Utils.isValidFileType(file)
ApplyIsValidFileType ==
    /\ util.fn = "isValidFileType"
    /\ ~util.done
    /\ util' = [util EXCEPT !.done = TRUE,
                            !.out = [valid |-> isValidFileType(util.file), error |-> ""]]
    /\ UNCHANGED <<state, pendingLoads, pendingEncodes, urls, ui, last, snapshot, deb>>

\* Utils.isValidFileSize(file)
ApplyIsValidFileSize ==
    /\ util.fn = "isValidFileSize"
    /\ ~util.done
    /\ util' = [util EXCEPT !.done = TRUE,
                            !.out = [valid |-> isValidFileSize(util.file), error |-> ""]]
    /\ UNCHANGED <<state, pendingLoads, pendingEncodes, urls, ui, last, snapshot, deb>>

\* Utils.generateWebPFilename(originalFilename)
ApplyGenerateWebPFilename ==
    /\ util.fn = "generateWebPFilename"
    /\ ~util.done
    /\ util' = [util EXCEPT !.done = TRUE, !.text = generateWebPFilename(util.name)]
    /\ UNCHANGED <<state, pendingLoads, pendingEncodes, urls, ui, last, snapshot, deb>>

\* Utils.formatFileSize(bytes)
ApplyFormatFileSize ==
    /\ util.fn = "formatFileSize"
    /\ ~util.done
    /\ util' = [util EXCEPT !.done = TRUE, !.size = formatFileSize(util.bytes)]
    /\ UNCHANGED <<state, pendingLoads, pendingEncodes, urls, ui, last, snapshot, deb>>

\* Utils.calculateReduction(originalSize, newSize)
ApplyCalculateReduction ==
    /\ util.fn = "calculateReduction"
    /\ ~util.done
    /\ util' = [util EXCEPT !.done = TRUE,
                            !.reduction = calculateReduction(util.pair[1], util.pair[2])]
    /\ UNCHANGED <<state, pendingLoads, pendingEncodes, urls, ui, last, snapshot, deb>>

NextUtils ==
    \/ ApplyValidateFile
    \/ ApplyIsValidFileType
    \/ ApplyIsValidFileSize
    \/ ApplyGenerateWebPFilename
    \/ ApplyFormatFileSize
    \/ ApplyCalculateReduction

SpecUtils == InitUtils /\ [][NextUtils]_vars

\* ------------------------------------------------------------- a debounced function and its timers
\* The debounced function is called.
DebouncedCall(args) ==
    /\ Len(deb.timers) < MaxCalls
    /\ deb' = executedFunction(deb, args)
    /\ UNCHANGED <<state, pendingLoads, pendingEncodes, urls, ui, last, snapshot, util>>

\* Timer t, set `wait` ms ago and not cleared since, fires.
TimerFires(t) ==
    /\ t \in 1..Len(deb.timers)
    /\ deb.timers[t].status = "pending"
    /\ deb' = later(deb, t)
    /\ UNCHANGED <<state, pendingLoads, pendingEncodes, urls, ui, last, snapshot, util>>

NextDebounce ==
    \/ \E a \in DebounceArgs : DebouncedCall(a)
    \/ \E t \in 1..MaxCalls : TimerFires(t)

\* The event loop runs every timer that is due.
SpecDebounce ==
    Init /\ [][NextDebounce]_vars /\ \A t \in 1..MaxCalls : WF_vars(TimerFires(t))

\* ------------------------------------------------------------- properties
\* A step that is a direct convertToWebP call, by any of its three entries.
ConvertStep ==
    \/ \E q \in QualityArgs : ConvertToWebP(q)
    \/ ConvertToWebPDefault
    \/ \E p \in Percents : UpdateQuality(p)

\* C1: a convertToWebP call made while isConverting is true is rejected with
\* 'Conversion already in progress' and changes neither the engine state nor
\* the encodes that are pending.
C1_SecondEncodeRejected ==
    [][(state.isConverting /\ ConvertStep)
          => /\ last'.status = "rejected"
             /\ last'.error = ErrInProgress
             /\ state' = state
             /\ pendingEncodes' = pendingEncodes]_vars

C1_Witness ==
    /\ last.op = "convertToWebP"
    /\ last.error = ErrInProgress
    /\ state.isConverting
    /\ Len(pendingEncodes) = 1

\* C2: at most one encode awaits the platform encoder at any time.
C2_AtMostOneEncodeInFlight == Len(pendingEncodes) <= 1

\* C3: a reset called while an encode is in flight is rejected and leaves the
\* engine state unchanged.
C3_ResetWhileConvertingRejected ==
    (last.op = "reset" /\ last.pre.isConverting)
        => (last.status = "rejected" /\ state = last.pre)

\* C4: once a loadImageFile has succeeded no conversion result is stored, and
\* downloadWebP fails with the no-result error.
C4_LoadDiscardsResult ==
    (last.op = "loadImageFile" /\ last.status = "resolved")
        => /\ ~isConverted(state)
           /\ downloadWebP_result(state, NoName).error = ErrNoConverted

\* C5: when a convertToWebP call that passed its guards settles, resolved or
\* rejected, isConverting is false.
C5_FlagClearedOnSettle ==
    (last.op = "convertToWebP" /\ last.step = "settle") => ~state.isConverting

C5_Witness ==
    /\ last.op = "convertToWebP"
    /\ last.step = "settle"
    /\ last.status = "rejected"
    /\ ~state.isConverting

\* C6: at most one preview handle created by convertToWebP is un-revoked,
\* however the encodes were triggered (Convert button or quality change).
C6_AtMostOneLivePreview == Cardinality(LivePreviews) <= 1

\* C7: after a reset (engine reset and the UI's handleReset) no preview
\* handle of an earlier encode remains un-revoked.
C7_ResetReleasesPreview ==
    (last.op = "reset") => LivePreviews = {}

\* C8: after the encoder returned no output (and nothing else touched the
\* engine since the call), convertToWebP has failed with the encode-failed
\* error and the engine is in Loaded: a source, no result, not converting, and
\* an encode is accepted.
C8_EncoderFailureLeavesLoaded ==
    (last.op = "convertToWebP" /\ last.error = ErrEncodeFailed /\ last.clean)
        => /\ hasImage(state)
           /\ ~isConverted(state)
           /\ ~state.isConverting
           /\ convertToWebP_guard(state) = ""

\* C9: when convertToWebP fails (and nothing else touched the engine since
\* the call), originalFile, originalImage, convertedBlob and quality have the
\* values they had before the call.
C9_FailureKeepsFields ==
    (last.op = "convertToWebP" /\ last.status = "rejected" /\ last.clean)
        => /\ state.originalFile = last.pre.originalFile
           /\ state.originalImage = last.pre.originalImage
           /\ state.convertedBlob = last.pre.convertedBlob
           /\ state.quality = last.pre.quality

\* C10: no step of a failing loadImageFile changes the engine state: neither
\* its call (validation, start of the read) nor the failure of its decode.
C10_FailedLoadKeepsState ==
    (last.op = "loadImageFile" /\ (last.step = "call" \/ last.status = "rejected"))
        => state = last.pre

C10_Witness ==
    /\ last.op = "loadImageFile"
    /\ last.step = "settle"
    /\ last.status = "rejected"
    /\ hasImage(state)
    /\ isConverted(state)

\* C11: the originalSize and the reduction of a conversion result are those of
\* the file whose bitmap was drawn on the canvas and encoded for that result,
\* also when another loadImageFile completed while the encode was pending.
C11_ReductionOfEncodedSource ==
    (last.op = "convertToWebP" /\ last.status = "resolved")
        => /\ last.result.originalSize = FileTable[last.result.blob.canvas].size
           /\ last.result.reduction =
                  calculateReduction(FileTable[last.result.blob.canvas].size,
                                     last.result.size)

\* C12: downloadWebP fails exactly when no converted blob is stored, and then
\* with the no-result error; when a blob is stored the download is named by
\* the override, or by generateWebPFilename of the source file's name.
C12_DownloadFailsOnlyWithoutResult ==
    (last.op = "downloadWebP")
        => /\ (last.status = "rejected") <=> ~isConverted(state)
           /\ (last.status = "rejected") => last.error = ErrNoConverted
           /\ (last.status = "resolved") =>
                  last.result.name \in
                      (NameArgs \ {NoName}) \cup
                      (IF state.originalFile = "null" THEN {}
                       ELSE {generateWebPFilename(FileTable[state.originalFile].name)})

\* C13: in every reachable state, a stored conversion result (isConverted)
\* implies a loaded source (hasImage).
C13_ConvertedImpliesImage == isConverted(state) => hasImage(state)

\* C14: after a successful convertToWebP(q) a source is loaded and
\* the quality field of the returned result equals q.
C14_ResultQualityIsArgument ==
    (last.op = "convertToWebP" /\ last.status = "resolved")
        => /\ hasImage(state)
           /\ last.result.quality.ulps = 0
           /\ last.result.quality.percent * QScale = last.result.blob.quality

\* C15: a convertToWebP called with no source loaded is rejected by the call
\* itself with 'No image loaded for conversion', and leaves every field of
\* the engine state, isConverting included, as it was.
C15_ConvertWithoutSourceRejected ==
    (last.op = "convertToWebP" /\ last.step = "call" /\ ~hasImage(last.pre))
        => /\ last.status = "rejected"
           /\ last.error = ErrNoImage
           /\ state = last.pre
           /\ ~state.isConverting

C15_Witness ==
    /\ last.op = "convertToWebP"
    /\ last.step = "call"
    /\ last.error = ErrNoImage
    /\ ~hasImage(state)

\* C16: a reset called with no encode in flight succeeds and leaves the
\* engine state {no source, no result, isConverting false, quality 0.9}, and
\* a reset called right after a reset changes nothing.
C16_ResetIdempotent ==
    (last.op = "reset" /\ ~last.pre.isConverting)
        => /\ last.status = "resolved"
           /\ state = InitState
           /\ (last.pre = InitState => state = last.pre)

\* The second of two resets in a row, the first of which cleared a loaded
\* source and a stored result.
C16_Witness ==
    /\ last.op = "reset"
    /\ last.pre = InitState
    /\ state = InitState
    /\ urls # <<>>

\* A step that is a downloadWebP call.
DownloadStep == \E n \in NameArgs : DownloadWebP(n)

\* The object URLs of a kind that exist before a step keep their revocations.
KeepsRevocations(kind) ==
    \A u \in 1..Len(urls) : urls[u].kind = kind => urls'[u].revokes = urls[u].revokes

\* C17: every URL a downloadWebP call creates is in the end revoked, once and
\* never again, and only by that call's timer; neither the call nor its timer
\* revokes a preview URL.
C17_DownloadUrlRevokedOnce ==
    /\ \A u \in 1..MaxUrls :
          (u <= Len(urls) /\ urls[u].kind = "download")
              ~> (u <= Len(urls) /\ urls[u].revokes = 1)
    /\ [][\A u \in 1..Len(urls) :
             (urls[u].kind = "download" /\ urls'[u].revokes # urls[u].revokes)
                 => (urls[u].revokes = 0 /\ DownloadTimerFires(u))]_vars
    /\ [][DownloadStep => (KeepsRevocations("preview") /\ KeepsRevocations("download"))]_vars
    /\ [][(\E u \in 1..MaxUrls : DownloadTimerFires(u)) => KeepsRevocations("preview")]_vars

\* A download's URL has been revoked by its timer while the preview URL of
\* the result that was downloaded is live.
C17_Witness ==
    \E u, v \in 1..Len(urls) :
        /\ urls[u].kind = "download"
        /\ urls[u].revokes = 1
        /\ urls[v].kind = "preview"
        /\ urls[v].revokes = 0

\* C18: assigning to a field of the object getState returned leaves the
\* engine state as it was, and no engine call (load, encode, reset and their
\* completions) changes a field of an object getState returned earlier.
C18_GetStateReturnsCopy ==
    [][/\ (\E f \in SnapshotFields : AssignSnapshotField(f)) => state' = state
       /\ (snapshot.taken /\ state' # state) => SnapshotValue' = SnapshotValue]_vars

\* The caller took a snapshot while a.png was loaded and assigned to its
\* quality; the engine was then reset.
C18_Witness ==
    /\ snapshot.taken
    /\ SnapshotValue.originalFile = "A"
    /\ SnapshotValue.quality = 10
    /\ last.op = "reset"
    /\ state = InitState

\* C19: validateFile succeeds exactly when the file is present, its type is
\* one of image/png, image/jpeg, image/jpg, image/gif, image/bmp and
\* image/svg+xml, and its size is at most 10,485,760 bytes.
C19_ValidateFileAccepts ==
    (util.fn = "validateFile" /\ util.done)
        => (util.out.valid <=>
               /\ util.file # "null"
               /\ FileTable[util.file].type \in
                      {"image/png", "image/jpeg", "image/jpg", "image/gif", "image/bmp",
                       "image/svg+xml"}
               /\ FileTable[util.file].size <= 10485760)

\* A file of a supported type and of exactly the limit was accepted.
C19_Witness ==
    /\ util.fn = "validateFile"
    /\ util.done
    /\ util.file # "null"
    /\ FileTable[util.file].size = 10485760
    /\ util.out.valid

\* C20: validateFile checks for a missing file, then the type, then the size:
\* no file gives the no-file error, a file of an unsupported type gives the
\* unsupported-type error whatever its size, and only a file of a supported
\* type gives the too-large error.
C20_ValidateFileOrder ==
    (util.fn = "validateFile" /\ util.done)
        => IF util.file = "null" THEN util.out.error = ErrNoFile
           ELSE /\ ~isValidFileType(util.file) => util.out.error = ErrType
                /\ (isValidFileType(util.file) /\ ~isValidFileSize(util.file))
                       => util.out.error = ErrSize

\* A file of an unsupported type and over the limit was rejected for its type.
C20_Witness ==
    /\ util.fn = "validateFile"
    /\ util.done
    /\ util.file # "null"
    /\ FileTable[util.file].type = "image/tiff"
    /\ FileTable[util.file].size > MAX_FILE_SIZE
    /\ util.out.error = ErrType

\* C21: generateWebPFilename returns the name without its last '.'-segment,
\* followed by '.webp'; for a name with no '.' it returns the whole name
\* followed by '.webp'.
C21_WebPFilenameKeepsStem ==
    (util.fn = "generateWebPFilename" /\ util.done)
        => LET dots == {i \in 1..Len(util.name) : util.name[i] = "."}
               stem == IF dots = {} THEN util.name
                       ELSE SubSeq(util.name, 1,
                                   (CHOOSE i \in dots : \A j \in dots : j <= i) - 1)
           IN  util.text = stem \o <<".", "w", "e", "b", "p">>

\* C22: for every positive byte count, sizes of 1024^4 bytes and more
\* included, formatFileSize ends its output with one of Bytes, KB, MB, GB.
C22_UnitWithinTable ==
    (util.fn = "formatFileSize" /\ util.done /\ util.bytes # <<0>>)
        => util.size.unit \in {"Bytes", "KB", "MB", "GB"}

\* C27: in every reachable state of the engine originalFile is null exactly
\* when originalImage is null, and getConversionStats does not throw.
C27_FileAndImageTogether ==
    /\ (state.originalFile = "null") <=> (state.originalImage = "null")
    /\ getConversionStats(state) # ErrTypeError

\* A second load replaced both the file and the image of a converted source.
C27_Witness ==
    /\ last.op = "loadImageFile"
    /\ last.status = "resolved"
    /\ last.pre.originalFile = "A"
    /\ state.originalFile = "B"
    /\ state.originalImage = "B"
    /\ getConversionStats(state) = "stats"

\* The timers of the debounced function that are pending.
PendingTimers == {t \in 1..Len(deb.timers) : deb.timers[t].status = "pending"}

\* C26: of the calls of a burst (calls with no timer firing between them)
\* only the last one's timer stays pending, func runs when that timer fires,
\* once, with the arguments of that last call, and a timer never fires while
\* the timer of a newer call is pending; the last call's timer does fire.
C26_DebounceRunsLastCallOnce ==
    /\ [](PendingTimers \subseteq {Len(deb.timers)})
    /\ [][\A t \in 1..MaxCalls :
             TimerFires(t) =>
                 /\ t = Len(deb.timers)
                 /\ deb'.runs = Append(deb.runs, deb.timers[t].args)
                 /\ PendingTimers' = {}]_vars
    /\ [][Len(deb'.runs) # Len(deb.runs) => \E t \in 1..MaxCalls : TimerFires(t)]_vars
    /\ \A t \in 1..MaxCalls :
          (t \in PendingTimers) ~>
              (t \in 1..Len(deb.timers) /\
                   (deb.timers[t].status = "fired" \/ t < Len(deb.timers)))

\* After a burst of two calls with different arguments func has run once,
\* with the arguments of the second call.
C26_Witness ==
    /\ Len(deb.timers) = 2
    /\ deb.timers[1] = [args |-> 1, status |-> "cleared"]
    /\ deb.timers[2] = [args |-> 2, status |-> "fired"]
    /\ deb.runs = <<2>>

\* C23: the UI calls loadImageFile, convertToWebP/updateQuality and reset
\* only while no encode is in flight, and no call it makes is rejected with
\* 'Conversion already in progress'.
C23_UISerializesEngineCalls ==
    /\ last.error # ErrInProgress
    /\ (last.step = "call" /\ last.op \in {"loadImageFile", "convertToWebP", "reset"})
           => ~last.pre.isConverting

\* C25: when a file was selected, a second file selected after it, and the
\* second file's load succeeded first, the first file's load, succeeding
\* later, leaves the second file the source.
C25_LastSelectedFileWins ==
    [][\A i \in 1..MaxPending :
          (/\ i \in 1..Len(pendingLoads)
           /\ pendingLoads[i].overtaken
           /\ HandleFileSelectResumes(i, "ok"))
              => state' = state]_vars

\* C24: once a result exists, when a request to re-encode at the slider's
\* value v was made while another conversion was in flight, then, unless the
\* slider is moved again, the result is reset or an encode fails, the stored
\* result is in the end one encoded at quality v / 100.
C24_SliderValueReachesResult ==
    \A v \in Percents :
        []((last.op = "convertToWebP" /\ last.error = ErrInProgress
              /\ isConverted(state) /\ ui.sliderValue = v /\ ~ui.timeout)
             => <>(\/ state.convertedBlob.quality = updateQuality_normalize(v)
                   \/ ui.sliderValue # v
                   \/ ui.timeout
                   \/ ~isConverted(state)
                   \/ last.error = ErrEncodeFailed))
====
